---- MODULE Spec2Model ----
(***************************************************************************)
(* Zambia regulatory-compliance survey: the `responses` table and the      *)
(* operations that write it (src/app.py, src/interview_editor.py).         *)
(*                                                                         *)
(* Modelling conventions                                                   *)
(*  - A Python dict is a function whose DOMAIN is its key set; dict.get    *)
(*    is Get, dict.update is Update.                                       *)
(*  - A Python list is [enc |-> 0, v |-> <<..>>]; the text json.dumps      *)
(*    makes of it is [enc |-> 1, v |-> <<..>>]; json.dumps of that text is *)
(*    enc 2 (a JSON string literal holding the text), and so on.           *)
(*    json.loads takes one level off and raises on a value that is not a   *)
(*    text (enc 0).                                                        *)
(*  - An interview_id INT_<YYYYMMDD>_<HHMMSS> is the second it was minted  *)
(*    in; timestamps (isoformat) are instants, TicksPerSecond to a second. *)
(*  - risk_score is held exactly, in units of 1/RiskDen.                   *)
(*  - Of the 42 columns of `responses` the model keeps one or more of each *)
(*    kind save_draft writes: text (business_name, contact_person),        *)
(*    integer (year_established), real (completion_time_local/national),   *)
(*    encoded list (isic_codes, procedure_data, reform_priorities), the    *)
(*    derived metrics and the workflow columns.                            *)
(***************************************************************************)
EXTENDS Integers, Sequences, FiniteSets, TLC

VARIABLES
    responses,              \* the responses table: interview_id -> row
    now,                    \* the wall clock, in instants
    editing_interview_id,   \* the administrator session's editing_interview_id
    session,                \* st.session_state of the browser session followed
    inflight,               \* calls that ran their first query but not their write
    lastOp                  \* the last operation run, its arguments and result

vars == <<responses, now, editing_interview_id, session, inflight, lastOp>>

\* ------------------------------------------------------------------ bounds
MaxClock == 2
TicksPerSecond == 2

\* --------------------------------------------------------------- constants
RiskDen == 730000           \* risk_score unit: (c/100000 + t/365)*10 = (73c + 20000t)/730000
CurrentSectionProgress == 20
TotalSections == 4
BaseShare == 80
MaxProgress == 100
YearDefault == 2020

NoId == -1                  \* None as an interview_id
NoUser == "None"            \* None as a user name or role

\* ----------------------------------------------------------- Python values
Get(d, k, default) == IF k \in DOMAIN d THEN d[k] ELSE default
Update(d, u) == u @@ d
EmptyDict == <<>>

PyList(seq) == [enc |-> 0, v |-> seq]
json_dumps(x) == [x EXCEPT !.enc = @ + 1]
json_loads_raises(x) == x.enc = 0 \/ (x.enc = 1 /\ "malformed" \in DOMAIN x)
json_loads(x) == [x EXCEPT !.enc = @ - 1]

\* truthiness of a str / of a list-or-text value
TruthyStr(s) == s # ""
TruthyVal(x) == x.enc > 0 \/ Len(x.v) > 0

Min(a, b) == IF a <= b THEN a ELSE b

\* ------------------------------------------------------------------- clock
\* datetime.now().strftime('%Y%m%d_%H%M%S'): the instant cut to its second
generate_interview_id(t) == t \div TicksPerSecond

\* ------------------------------------------------------ metrics calculator
\* the totals with the unofficial payments left out of the cost
RECURSIVE SumCostFeesOnly(_)
SumCostFeesOnly(procs) ==
    IF procs = <<>> THEN 0
    ELSE Get(Head(procs), "official_fees", 0) + SumCostFeesOnly(Tail(procs))

RECURSIVE SumCost(_)
SumCost(procs) ==
    IF procs = <<>> THEN 0
    ELSE Get(Head(procs), "official_fees", 0)
         + Get(Head(procs), "unofficial_payments", 0)
         + SumCost(Tail(procs))

RECURSIVE SumTime(_)
SumTime(procs) ==
    IF procs = <<>> THEN 0
    ELSE Get(Head(procs), "total_days", 0) + SumTime(Tail(procs))

\* the risk score without its cap
RiskScoreUncapped(total_cost, total_time) == 73 * total_cost + 20000 * total_time

\* a risk score that starts again from zero past its cap
RiskScoreWrapped(total_cost, total_time) ==
    (73 * total_cost + 20000 * total_time) % (10 * RiskDen + 1)

\* min((total_cost / 100000 + total_time / 365) * 10, 10), in units of 1/RiskDen
RiskScore(total_cost, total_time) ==
    Min(73 * total_cost + 20000 * total_time, 10 * RiskDen)

\* DraftManager.calculate_progress: the four section predicates
SectionADone(form_data) ==
    /\ TruthyStr(Get(form_data, "business_name", ""))
    /\ TruthyStr(Get(form_data, "contact_person", ""))

\* `if form_data.get(k): try: x = json.loads(form_data[k]); if x and len(x) > 0`
EncodedListDone(form_data, k) ==
    /\ k \in DOMAIN form_data
    /\ TruthyVal(form_data[k])
    /\ ~json_loads_raises(form_data[k])
    /\ TruthyVal(json_loads(form_data[k]))

SectionBDone(form_data) == EncodedListDone(form_data, "procedure_data")

SectionCDone(form_data) ==
    /\ "completion_time_local" \in DOMAIN form_data
    /\ "completion_time_national" \in DOMAIN form_data

SectionDDone(form_data) == EncodedListDone(form_data, "reform_priorities")

Bit(b) == IF b THEN 1 ELSE 0

\* a progress that is the share of completed sections alone
calculate_progress_no_bonus(form_data) ==
    LET sections_completed ==
            Bit(SectionADone(form_data)) + Bit(SectionBDone(form_data))
            + Bit(SectionCDone(form_data)) + Bit(SectionDDone(form_data))
    IN  Min((sections_completed * MaxProgress) \div TotalSections, MaxProgress)

calculate_progress(form_data) ==
    LET sections_completed ==
            Bit(SectionADone(form_data)) + Bit(SectionBDone(form_data))
            + Bit(SectionCDone(form_data)) + Bit(SectionDDone(form_data))
        base_progress == (sections_completed * BaseShare) \div TotalSections
    IN  Min(base_progress + CurrentSectionProgress, MaxProgress)

\* ------------------------------------------------------------ record store
Ids == DOMAIN responses

\* the columns save_draft writes on both branches (UPDATE and INSERT)
SavedColumns(data, current_user, current_section, t) ==
    LET procedure_data == Get(data, "procedure_data", PyList(<<>>))
        total_cost == SumCost(procedure_data.v)
        total_time == SumTime(procedure_data.v)
    IN  [ business_name            |-> Get(data, "business_name", ""),
          contact_person           |-> Get(data, "contact_person", ""),
          isic_codes               |-> json_dumps(Get(data, "isic_codes", PyList(<<>>))),
          year_established         |-> Get(data, "year_established", 0),
          procedure_data           |-> json_dumps(procedure_data),
          completion_time_local    |-> Get(data, "completion_time_local", 0),
          completion_time_national |-> Get(data, "completion_time_national", 0),
          reform_priorities        |-> json_dumps(Get(data, "reform_priorities", PyList(<<>>))),
          last_modified            |-> t,
          total_compliance_cost    |-> total_cost,
          total_compliance_time    |-> total_time,
          risk_score               |-> RiskScore(total_cost, total_time),
          created_by               |-> current_user,
          current_section          |-> current_section,
          draft_progress           |-> calculate_progress(data) ]

\* an upsert whose UPDATE also writes status = 'draft'
save_draft_resets_status(tbl, data, interview_id, current_user, current_section, t) ==
    LET id == IF interview_id = NoId THEN generate_interview_id(t) ELSE interview_id
        cols == SavedColumns(data, current_user, current_section, t)
    IN  IF id \in DOMAIN tbl
        THEN [tbl |-> [tbl EXCEPT ![id] =
                        cols @@ [status |-> "draft",
                                 submission_date |-> @.submission_date]],
              ret |-> id]
        ELSE [tbl |-> (id :> (cols @@ [status |-> "draft", submission_date |-> t]))
                      @@ tbl,
              ret |-> id]

\* an upsert whose UPDATE is a partial patch: only the keys in the dictionary
save_draft_patches(tbl, data, interview_id, current_user, current_section, t) ==
    LET id == IF interview_id = NoId THEN generate_interview_id(t) ELSE interview_id
        cols == SavedColumns(data, current_user, current_section, t)
    IN  IF id \in DOMAIN tbl
        THEN [tbl |-> [tbl EXCEPT ![id] =
                        [k \in DOMAIN @ |->
                            IF k \in {"status", "submission_date"} THEN @[k]
                            ELSE IF k \in DOMAIN data \/ k \notin
                                      {"business_name", "contact_person",
                                       "year_established", "isic_codes",
                                       "procedure_data", "completion_time_local",
                                       "completion_time_national", "reform_priorities"}
                            THEN cols[k]
                            ELSE @[k]]],
              ret |-> id]
        ELSE [tbl |-> (id :> (cols @@ [status |-> "draft", submission_date |-> t]))
                      @@ tbl,
              ret |-> id]

\* an upsert whose UPDATE also stamps submission_date
save_draft_restamps(tbl, data, interview_id, current_user, current_section, t) ==
    LET id == IF interview_id = NoId THEN generate_interview_id(t) ELSE interview_id
        cols == SavedColumns(data, current_user, current_section, t)
    IN  IF id \in DOMAIN tbl
        THEN [tbl |-> [tbl EXCEPT ![id] =
                        cols @@ [status |-> @.status, submission_date |-> t]],
              ret |-> id]
        ELSE [tbl |-> (id :> (cols @@ [status |-> "draft", submission_date |-> t]))
                      @@ tbl,
              ret |-> id]

\* save_draft(data, interview_id): the table it leaves and the value it returns
save_draft(tbl, data, interview_id, current_user, current_section, t) ==
    LET id == IF interview_id = NoId THEN generate_interview_id(t) ELSE interview_id
        cols == SavedColumns(data, current_user, current_section, t)
    IN  IF Get(data, "procedure_data", PyList(<<>>)).enc # 0
        THEN \* iterating a str for proc.get raises: except -> None
             [tbl |-> tbl, ret |-> NoId]
        ELSE IF id \in DOMAIN tbl
        THEN [tbl |-> [tbl EXCEPT ![id] =
                        cols @@ [status |-> @.status,
                                 submission_date |-> @.submission_date]],
              ret |-> id]
        ELSE [tbl |-> (id :> (cols @@ [status |-> "draft", submission_date |-> t]))
                      @@ tbl,
              ret |-> id]

\* a duplicate check that counts the row of the current interview as well
check_duplicate_counts_own_row(tbl, business_name, current_interview_id) ==
    Cardinality({i \in DOMAIN tbl : tbl[i].business_name = business_name}) > 0

\* a duplicate check that looks at submitted rows only
check_duplicate_among_submitted(tbl, business_name, current_interview_id) ==
    Cardinality({i \in DOMAIN tbl :
        /\ tbl[i].business_name = business_name
        /\ tbl[i].status = "submitted"
        /\ i # current_interview_id}) > 0

\* check_duplicate_business_name(business_name, current_interview_id)
check_duplicate_business_name(tbl, business_name, current_interview_id) ==
    IF current_interview_id # NoId
    THEN Cardinality({i \in DOMAIN tbl :
            tbl[i].business_name = business_name /\ i # current_interview_id}) > 0
    ELSE Cardinality({i \in DOMAIN tbl : tbl[i].business_name = business_name}) > 0

\* a submission without the duplicate-name gate
submit_final_ungated(tbl, form_data, interview_id, t) ==
    [tbl |-> [i \in DOMAIN tbl |->
                IF i = interview_id
                THEN [tbl[i] EXCEPT !.status = "submitted", !.submission_date = t]
                ELSE tbl[i]],
     ret |-> TRUE]

\* a submission that also stamps last_modified
submit_final_touches_row(tbl, form_data, interview_id, t) ==
    LET business_name == Get(form_data, "business_name", "")
    IN  IF check_duplicate_business_name(tbl, business_name, interview_id)
        THEN [tbl |-> tbl, ret |-> FALSE]
        ELSE [tbl |-> [i \in DOMAIN tbl |->
                        IF i = interview_id
                        THEN [tbl[i] EXCEPT !.status = "submitted",
                                            !.submission_date = t,
                                            !.last_modified = t]
                        ELSE tbl[i]],
              ret |-> TRUE]

\* submit_final(interview_id), with st.session_state.form_data = form_data
submit_final(tbl, form_data, interview_id, t) ==
    LET business_name == Get(form_data, "business_name", "")
    IN  IF check_duplicate_business_name(tbl, business_name, interview_id)
        THEN [tbl |-> tbl, ret |-> FALSE]
        ELSE [tbl |-> [i \in DOMAIN tbl |->
                        IF i = interview_id
                        THEN [tbl[i] EXCEPT !.status = "submitted",
                                            !.submission_date = t]
                        ELSE tbl[i]],
              ret |-> TRUE]

\* an update that also sends the row back to 'draft'
update_interview_reopens(tbl, interview_id, updates, t) ==
    [i \in DOMAIN tbl |->
        IF i = interview_id
        THEN [last_modified |-> t, status |-> "draft"] @@ updates @@ tbl[i]
        ELSE tbl[i]]

\* InterviewEditor.update_interview(interview_id, updates): a partial patch
update_interview(tbl, interview_id, updates, t) ==
    [i \in DOMAIN tbl |->
        IF i = interview_id
        THEN [last_modified |-> t] @@ updates @@ tbl[i]
        ELSE tbl[i]]

\* a revert that also stamps submission_date with the instant of the revert
revert_to_draft_restamps(tbl, interview_id, t) ==
    [i \in DOMAIN tbl |->
        IF i = interview_id
        THEN [tbl[i] EXCEPT !.status = "draft", !.last_modified = t,
                            !.submission_date = t]
        ELSE tbl[i]]

\* InterviewEditor.revert_to_draft(interview_id)
revert_to_draft(tbl, interview_id, t) ==
    [i \in DOMAIN tbl |->
        IF i = interview_id
        THEN [tbl[i] EXCEPT !.status = "draft", !.last_modified = t]
        ELSE tbl[i]]

\* DraftManager.delete_draft: DELETE ... WHERE interview_id = ? AND status = 'draft'
delete_draft(tbl, interview_id) ==
    [i \in {j \in DOMAIN tbl : ~(j = interview_id /\ tbl[j].status = "draft")} |-> tbl[i]]

\* delete_interview: DELETE FROM responses WHERE interview_id = ?
delete_interview(tbl, interview_id) ==
    [i \in DOMAIN tbl \ {interview_id} |-> tbl[i]]

\* DraftManager.update_draft_progress
update_draft_progress(tbl, interview_id, current_section, progress_percentage, t) ==
    [i \in DOMAIN tbl |->
        IF i = interview_id
        THEN [tbl[i] EXCEPT !.current_section = current_section,
                            !.draft_progress = progress_percentage,
                            !.last_modified = t]
        ELSE tbl[i]]

\* ---------------------------------------------------------------- inputs
\* INTERVIEWER_CREDENTIALS / ADMIN_CREDENTIALS user names
Interviewers == {"Fizie Fulumaka"}
Admins == {"admin"}

Names == {"Acme Farms", "Zed Builders"}
Contact == "Mary Phiri"

P1 == [official_fees |-> 1000, unofficial_payments |-> 0, total_days |-> 14]
P2 == [official_fees |-> 500, unofficial_payments |-> 200, total_days |-> 7]
PBig == [official_fees |-> 100000, total_days |-> 400]

Reform == "Simplify application procedures"

\* form_data of a session that has saved Section A with business name n
SectionAData(n) ==
    [business_name |-> n, contact_person |-> Contact,
     isic_codes |-> PyList(<<>>), year_established |-> YearDefault]

\* st.session_state of a browser session (the keys the handlers read)
Session(u, id, fd, procs, isic) ==
    [current_user |-> u, current_interview_id |-> id, form_data |-> fd,
     procedures_list |-> procs, selected_isic_codes |-> isic]

\* a session that has not saved anything yet (initialize_session_state, reset_interview)
FreshSessions == {Session(u, NoId, EmptyDict, <<>>, <<>>) : u \in Interviewers}

\* the sessions that may act at instant t: fresh ones, and ones holding the id
\* minted in any second so far with Section A saved
Sessions(t) ==
    FreshSessions
    \cup {Session(u, id, SectionAData(n), <<>>, <<>>) :
            u \in Interviewers, id \in 0 .. generate_interview_id(t), n \in Names}

\* what the Section A form hands to its submit handler
SectionAInputs ==
    [business_name : Names \cup {""}, contact_person : {Contact},
     year_established : {YearDefault}]

\* what the Section C form hands to its submit handler
SectionCInputs ==
    [completion_time_local : {60}, completion_time_national : {40}]

\* the reform check boxes ticked in Section D
ReformLists == {<<>>}

\* --- the inputs of SpecData: one business, its sections filled in or not
DataName == "Acme Farms"
ProcLists == {<<>>, <<P1, P2>>, <<PBig>>}
DataReformLists == {<<>>, <<Reform>>}

FullData ==
    Update(SectionAData(DataName),
           [procedure_data |-> PyList(<<P1, P2>>),
            completion_time_local |-> 60, completion_time_national |-> 40,
            reform_priorities |-> PyList(<<Reform>>)])

DataSessions(t) ==
    FreshSessions
    \cup {Session(u, id, fd, procs, <<"0111">>) :
            u \in Interviewers, id \in 0 .. generate_interview_id(t),
            fd \in {SectionAData(DataName), FullData}, procs \in ProcLists}

DataSectionAInputs ==
    [business_name : {DataName}, contact_person : {Contact, ""},
     year_established : {YearDefault}]

\* ---------------------------------------------------------------- handlers
\* Each handler is the code run by one button: the table it leaves, the
\* session state it leaves (s), the dictionary it handed to save_draft (data,
\* EmptyDict when save_draft was not called), the id save_draft returned (ret)
\* and whether the handler reported success (ok).

Saved(s, form_data, r) ==
    [tbl |-> r.tbl,
     s |-> [s EXCEPT !.form_data = form_data,
                     !.current_interview_id = IF r.ret # NoId THEN r.ret ELSE @],
     data |-> form_data, ret |-> r.ret, ok |-> r.ret # NoId]

Refused(tbl, s) ==
    [tbl |-> tbl, s |-> s, data |-> EmptyDict, ret |-> NoId, ok |-> FALSE]

\* display_section_a: "Save Section A"
display_section_a(tbl, s, in, t) ==
    IF ~TruthyStr(in.business_name) THEN Refused(tbl, s)
    ELSE IF check_duplicate_business_name(tbl, in.business_name, s.current_interview_id)
    THEN Refused(tbl, s)
    ELSE LET form_data ==
                 Update(s.form_data,
                        [business_name |-> in.business_name,
                         contact_person |-> in.contact_person,
                         isic_codes |-> PyList(s.selected_isic_codes),
                         year_established |-> in.year_established])
         IN  Saved(s, form_data,
                   save_draft(tbl, form_data, s.current_interview_id,
                              s.current_user, "A", t))

\* enhanced_section_b: "Save Procedures"
enhanced_section_b(tbl, s, t) ==
    LET form_data == Update(s.form_data, [procedure_data |-> PyList(s.procedures_list)])
    IN  Saved(s, form_data,
              save_draft(tbl, form_data, s.current_interview_id, s.current_user, "B", t))

\* display_section_c: "Save Section C"
display_section_c(tbl, s, in, t) ==
    LET form_data == Update(s.form_data, in)
    IN  Saved(s, form_data,
              save_draft(tbl, form_data, s.current_interview_id, s.current_user, "C", t))

\* display_section_d: "Save Section D"
display_section_d_save(tbl, s, selected_reforms, t) ==
    LET form_data == Update(s.form_data, [reform_priorities |-> PyList(selected_reforms)])
    IN  Saved(s, form_data,
              save_draft(tbl, form_data, s.current_interview_id, s.current_user, "D", t))

\* display_section_d: "Submit Complete Interview" (current_interview_id is not
\* assigned on this branch)
display_section_d_submit(tbl, s, selected_reforms, t) ==
    LET form_data == Update(s.form_data, [reform_priorities |-> PyList(selected_reforms)])
        r == save_draft(tbl, form_data, s.current_interview_id, s.current_user, "D", t)
        f == submit_final(r.tbl, form_data, r.ret, t)
    IN  IF r.ret = NoId
        THEN [tbl |-> r.tbl, s |-> [s EXCEPT !.form_data = form_data],
              data |-> form_data, ret |-> NoId, ok |-> FALSE]
        ELSE [tbl |-> f.tbl, s |-> [s EXCEPT !.form_data = form_data],
              data |-> form_data, ret |-> r.ret, ok |-> f.ret]

\* ----------------------------------------------------------------- actions
\* lastOp: the handler run last (op), the interview_id its session held (id),
\* the status the row it addressed had before it ran (was), the business name it
\* checked or saved (name), the dictionary handed to save_draft (data), the id
\* save_draft returned (ret) and whether the handler reported success (ok).
StatusOf(tbl, id) == IF id \in DOMAIN tbl THEN tbl[id].status ELSE "absent"

\* the row a save with this interview_id argument addresses at instant t
Addressed(id, t) == IF id = NoId THEN generate_interview_id(t) ELSE id

Op(op, id, name, h) ==
    [op |-> op, id |-> id, was |-> StatusOf(responses, Addressed(id, now)),
     name |-> name, ret |-> h.ret, ok |-> h.ok, data |-> h.data]

Plain(op, id, name, ok) ==
    [op |-> op, id |-> id, was |-> StatusOf(responses, id),
     name |-> name, ret |-> NoId, ok |-> ok, data |-> EmptyDict]

\* initialize_session_state: the keys of st.session_state the handlers read
InitialSession ==
    [logged_in |-> FALSE, current_user |-> NoUser, user_role |-> NoUser,
     interviewer_logged_in |-> FALSE, admin_logged_in |-> FALSE,
     current_section |-> "A", current_interview_id |-> NoId,
     form_data |-> EmptyDict, procedures_list |-> <<>>,
     selected_isic_codes |-> <<>>]

Init ==
    /\ responses = <<>>
    /\ now = 0
    /\ editing_interview_id = NoId
    /\ session = InitialSession
    /\ inflight = <<>>
    /\ lastOp = Plain("init", NoId, "", TRUE)

\* the wall clock advances
Tick ==
    /\ now < MaxClock
    /\ now' = now + 1
    /\ lastOp' = Plain("tick", NoId, "", TRUE)
    /\ UNCHANGED <<responses, editing_interview_id, session, inflight>>

SaveSectionA(S, I) ==
    \E s \in S, in \in I :
        LET h == display_section_a(responses, s, in, now)
        IN  /\ responses' = h.tbl
            /\ lastOp' = Op("save_section_a", s.current_interview_id, in.business_name, h)
            /\ UNCHANGED <<now, editing_interview_id, session, inflight>>

SaveProcedures(S) ==
    \E s \in S :
        LET h == enhanced_section_b(responses, s, now)
        IN  /\ responses' = h.tbl
            /\ lastOp' = Op("save_procedures", s.current_interview_id,
                            Get(h.data, "business_name", ""), h)
            /\ UNCHANGED <<now, editing_interview_id, session, inflight>>

SaveSectionC(S, I) ==
    \E s \in S, in \in I :
        LET h == display_section_c(responses, s, in, now)
        IN  /\ responses' = h.tbl
            /\ lastOp' = Op("save_section_c", s.current_interview_id,
                            Get(h.data, "business_name", ""), h)
            /\ UNCHANGED <<now, editing_interview_id, session, inflight>>

SaveSectionD(S, R) ==
    \E s \in S, selected_reforms \in R :
        LET h == display_section_d_save(responses, s, selected_reforms, now)
        IN  /\ responses' = h.tbl
            /\ lastOp' = Op("save_section_d", s.current_interview_id,
                            Get(h.data, "business_name", ""), h)
            /\ UNCHANGED <<now, editing_interview_id, session, inflight>>

SubmitCompleteInterview(S, R) ==
    \E s \in S, selected_reforms \in R :
        LET h == display_section_d_submit(responses, s, selected_reforms, now)
        IN  /\ responses' = h.tbl
            /\ lastOp' = Op("submit_final", s.current_interview_id,
                            Get(h.data, "business_name", ""), h)
            /\ UNCHANGED <<now, editing_interview_id, session, inflight>>

\* auto_save_draft: recompute the progress of the session's interview
auto_save_draft(tbl, s, current_section, t) ==
    IF s.form_data # EmptyDict /\ s.current_interview_id # NoId
    THEN [tbl |-> update_draft_progress(tbl, s.current_interview_id, current_section,
                                        calculate_progress(s.form_data), t),
          s |-> s, data |-> EmptyDict, ret |-> NoId, ok |-> TRUE]
    ELSE Refused(tbl, s)

AutoSaveDraft(S) ==
    \E s \in S :
        LET h == auto_save_draft(responses, s, "A", now)
        IN  /\ h.ok
            /\ responses' = h.tbl
            /\ lastOp' = Op("update_draft_progress", s.current_interview_id, "", h)
            /\ UNCHANGED <<now, editing_interview_id, session, inflight>>

\* display_draft_card: "Delete" on a draft listed by get_user_drafts
DeleteDraft ==
    \E u \in Interviewers, id \in Ids :
        /\ responses[id].status = "draft"
        /\ responses[id].created_by = u
        /\ responses' = delete_draft(responses, id)
        /\ lastOp' = Plain("delete_draft", id, "", TRUE)
        /\ UNCHANGED <<now, editing_interview_id, session, inflight>>

\* database_tools_section: "Confirm Delete All Drafts"
ClearAllDrafts ==
    /\ responses' = [i \in {j \in Ids : responses[j].status # "draft"} |-> responses[i]]
    /\ lastOp' = Plain("clear_drafts", NoId, "", TRUE)
    /\ UNCHANGED <<now, editing_interview_id, session, inflight>>

\* interview_editor_main / display_interview_selector: "Edit Selected Interview"
SelectInterview ==
    \E id \in Ids :
        /\ editing_interview_id = NoId
        /\ responses[id].status = "submitted"
        /\ editing_interview_id' = id
        /\ lastOp' = Plain("select_interview", id, "", TRUE)
        /\ UNCHANGED <<responses, now, session, inflight>>

\* interview_editor_main: "Back to Interview List"
BackToList ==
    /\ editing_interview_id # NoId
    /\ editing_interview_id' = NoId
    /\ lastOp' = Plain("back_to_list", NoId, "", TRUE)
    /\ UNCHANGED <<responses, now, session, inflight>>

\* display_interview_editor renders the edit forms only when the row is found
EditorOpen == editing_interview_id # NoId /\ editing_interview_id \in Ids

\* edit_basic_information: "Save Basic Information"
EditBasicInformation ==
    \E business_name \in Names \cup {""} :
        /\ EditorOpen
        /\ responses' = update_interview(responses, editing_interview_id,
                            [business_name |-> business_name,
                             contact_person |-> responses[editing_interview_id].contact_person],
                            now)
        /\ lastOp' = Plain("update_interview", editing_interview_id, business_name, TRUE)
        /\ UNCHANGED <<now, editing_interview_id, session, inflight>>

\* display_advanced_options: "Revert to Draft"
RevertToDraft ==
    /\ EditorOpen
    /\ responses' = revert_to_draft(responses, editing_interview_id, now)
    /\ lastOp' = Plain("revert_to_draft", editing_interview_id, "", TRUE)
    /\ UNCHANGED <<now, editing_interview_id, session, inflight>>

\* display_advanced_options: "Confirm Permanent Deletion"
DeleteInterview ==
    /\ EditorOpen
    /\ responses' = delete_interview(responses, editing_interview_id)
    /\ lastOp' = Plain("delete_interview", editing_interview_id, "", TRUE)
    /\ UNCHANGED <<now, editing_interview_id, session, inflight>>

\* The interviewers' and the administrator's handlers over the life of a row
Next ==
    \/ Tick
    \/ SaveSectionA(Sessions(now), SectionAInputs)
    \/ SaveSectionD(Sessions(now), ReformLists)
    \/ SubmitCompleteInterview(Sessions(now), ReformLists)
    \/ AutoSaveDraft(Sessions(now))
    \/ DeleteDraft
    \/ ClearAllDrafts
    \/ SelectInterview
    \/ BackToList
    \/ EditBasicInformation
    \/ RevertToDraft
    \/ DeleteInterview

Spec == Init /\ [][Next]_vars

\* The four section saves over the form data of one business
NextData ==
    \/ Tick
    \/ SaveSectionA(DataSessions(now), DataSectionAInputs)
    \/ SaveProcedures(DataSessions(now))
    \/ SaveSectionC(DataSessions(now), SectionCInputs)
    \/ SaveSectionD(DataSessions(now), DataReformLists)
    \/ DeleteDraft

SpecData == Init /\ [][NextData]_vars

\* -------------------------------------------- the editor's procedure forms
\* edit_compliance_procedures: the list decoded from the stored procedure_data
\* ('[]', a text that does not decode to a list, and the empty list show no form)
StoredProcedures(row) ==
    IF row.procedure_data.enc = 1 THEN row.procedure_data.v ELSE <<>>

\* the values the "Update Procedure" form may be submitted with
EditInputs == [official_fees : {250}, total_days : {14}]

\* edit_single_procedure: "Update Procedure <index>"
edit_single_procedure(tbl, interview_id, index, in, t) ==
    LET procedures == StoredProcedures(tbl[interview_id])
        edited == [procedures EXCEPT ![index] = Update(@, in)]
    IN  update_interview(tbl, interview_id,
                         [procedure_data |-> json_dumps(PyList(edited))], t)

\* recalculate_totals: "Recalculate Totals"
recalculate_totals(tbl, interview_id, t) ==
    LET procedures == StoredProcedures(tbl[interview_id])
        total_cost == SumCost(procedures)
        total_time == SumTime(procedures)
    IN  update_interview(tbl, interview_id,
                         [total_compliance_cost |-> total_cost,
                          total_compliance_time |-> total_time,
                          risk_score |-> RiskScore(total_cost, total_time)], t)

\* the procedure forms are rendered only for a non-empty decoded list
ProceduresShown ==
    EditorOpen /\ StoredProcedures(responses[editing_interview_id]) # <<>>

EditSingleProcedure ==
    \E in \in EditInputs :
        /\ ProceduresShown
        /\ \E index \in 1 .. Len(StoredProcedures(responses[editing_interview_id])) :
              responses' = edit_single_procedure(responses, editing_interview_id,
                                                 index, in, now)
        /\ lastOp' = Plain("edit_single_procedure", editing_interview_id, "", TRUE)
        /\ UNCHANGED <<now, editing_interview_id, session, inflight>>

RecalculateTotals ==
    /\ ProceduresShown
    /\ responses' = recalculate_totals(responses, editing_interview_id, now)
    /\ lastOp' = Plain("recalculate_totals", editing_interview_id, "", TRUE)
    /\ UNCHANGED <<now, editing_interview_id, session, inflight>>

\* the sessions of SpecEdit: one that has captured two procedures and saved
\* nothing yet, and ones holding an id with every section filled in
EditSessions(t) ==
    {Session(u, NoId, EmptyDict, <<P1, P2>>, <<>>) : u \in Interviewers}
    \cup {Session(u, id, FullData, <<P1, P2>>, <<"0111">>) :
            u \in Interviewers, id \in 0 .. generate_interview_id(t)}

\* Interviews with procedures, submitted and then edited by the administrator
NextEdit ==
    \/ Tick
    \/ SaveProcedures(EditSessions(now))
    \/ SubmitCompleteInterview(EditSessions(now), ReformLists)
    \/ SelectInterview
    \/ BackToList
    \/ EditSingleProcedure
    \/ RecalculateTotals

SpecEdit == Init /\ [][NextEdit]_vars

\* ------------------------------------------- the operations called directly
\* Each call runs at an instant t it reads from datetime.now(): now or later.
CallTimes == now .. Min(now + 1, MaxClock)

\* the form-data dictionaries and the active sections of the calls
OpForms == {SectionAData(DataName), FullData}
OpSections == {"A", "D"}
OpIds == {NoId} \cup (0 .. generate_interview_id(MaxClock))

Called(op, id, section, data, ret, ok) ==
    [op |-> op, id |-> id, was |-> StatusOf(responses, id), section |-> section,
     name |-> Get(data, "business_name", ""), data |-> data, ret |-> ret, ok |-> ok]

\* whether a save_draft call repeats the successful save_draft call before it:
\* the same form data and active section, on the id that call returned
RepeatsLastCall(data, interview_id, section) ==
    /\ lastOp.op = "op_save_draft"
    /\ lastOp.ok
    /\ lastOp.data = data
    /\ lastOp.section = section
    /\ lastOp.ret = interview_id

\* save_draft(data, interview_id) with st.session_state.current_section = section
CallSaveDraft ==
    \E data \in OpForms, interview_id \in OpIds, section \in OpSections,
       u \in Interviewers, t \in CallTimes :
        LET r == save_draft(responses, data, interview_id, u, section, t)
        IN  /\ responses' = r.tbl
            /\ now' = t
            /\ lastOp' = Called("op_save_draft", interview_id, section, data,
                                r.ret, r.ret # NoId)
                          @@ [again |-> RepeatsLastCall(data, interview_id, section)]
            /\ UNCHANGED <<editing_interview_id, session, inflight>>

\* submit_final(interview_id) with st.session_state.form_data = form_data
CallSubmitFinal ==
    \E form_data \in OpForms, interview_id \in OpIds \ {NoId}, t \in CallTimes :
        LET r == submit_final(responses, form_data, interview_id, t)
        IN  /\ responses' = r.tbl
            /\ now' = t
            /\ lastOp' = Called("op_submit_final", interview_id, "D", form_data,
                                interview_id, r.ret)
            /\ UNCHANGED <<editing_interview_id, session, inflight>>

\* InterviewEditor.revert_to_draft(interview_id)
CallRevertToDraft ==
    \E interview_id \in OpIds \ {NoId}, t \in CallTimes :
        /\ responses' = revert_to_draft(responses, interview_id, t)
        /\ now' = t
        /\ lastOp' = Called("op_revert_to_draft", interview_id, "", EmptyDict,
                            interview_id, TRUE)
        /\ UNCHANGED <<editing_interview_id, session, inflight>>

NextOps ==
    \/ CallSaveDraft
    \/ CallSubmitFinal
    \/ CallRevertToDraft

SpecOps == Init /\ [][NextOps]_vars

\* ------------------------------------------------- a store that may fail
\* execute_query returns None when get_connection fails or the statement
\* raises. read_ok, write_ok and check_ok say whether the SELECT of save_draft,
\* its UPDATE or INSERT, and the SELECT COUNT of the duplicate check go through.

\* check_duplicate_business_name: `if result and ...: return count > 0`, else False
check_duplicate_on_store(tbl, business_name, current_interview_id, check_ok) ==
    IF check_ok
    THEN check_duplicate_business_name(tbl, business_name, current_interview_id)
    ELSE FALSE

\* save_draft on such a store
save_draft_on_store(tbl, data, interview_id, current_user, current_section, t, read_ok, write_ok) ==
    LET id == IF interview_id = NoId THEN generate_interview_id(t) ELSE interview_id
        \* existing_result is None when the SELECT failed: the INSERT branch runs
        found == read_ok /\ id \in DOMAIN tbl
        done == save_draft(tbl, data, interview_id, current_user, current_section, t)
        failed == [tbl |-> tbl, ret |-> NoId]
    IN  IF found
        THEN IF write_ok THEN done ELSE failed
        ELSE \* INSERT: interview_id TEXT UNIQUE rejects a second row with the id
             IF write_ok /\ id \notin DOMAIN tbl THEN done ELSE failed

\* display_section_a that calls save_draft before it validates the name
display_section_a_saves_first(tbl, s, in, t, check_ok, read_ok, write_ok) ==
    LET form_data ==
            Update(s.form_data,
                   [business_name |-> in.business_name,
                    contact_person |-> in.contact_person,
                    isic_codes |-> PyList(s.selected_isic_codes),
                    year_established |-> in.year_established])
    IN  Saved(s, form_data,
              save_draft_on_store(tbl, form_data, s.current_interview_id,
                                  s.current_user, "A", t, read_ok, write_ok))

\* display_section_a: "Save Section A" on such a store
display_section_a_on_store(tbl, s, in, t, check_ok, read_ok, write_ok) ==
    IF ~TruthyStr(in.business_name) THEN Refused(tbl, s)
    ELSE IF check_duplicate_on_store(tbl, in.business_name, s.current_interview_id,
                                     check_ok)
    THEN Refused(tbl, s)
    ELSE LET form_data ==
                 Update(s.form_data,
                        [business_name |-> in.business_name,
                         contact_person |-> in.contact_person,
                         isic_codes |-> PyList(s.selected_isic_codes),
                         year_established |-> in.year_established])
         IN  Saved(s, form_data,
                   save_draft_on_store(tbl, form_data, s.current_interview_id,
                                       s.current_user, "A", t, read_ok, write_ok))

CallSaveDraftOnStore ==
    \E data \in OpForms, interview_id \in OpIds, u \in Interviewers, t \in CallTimes,
       read_ok \in BOOLEAN, write_ok \in BOOLEAN :
        LET r == save_draft_on_store(responses, data, interview_id, u, "A", t,
                                     read_ok, write_ok)
        IN  /\ responses' = r.tbl
            /\ now' = t
            /\ lastOp' = Called("op_save_draft", interview_id, "A", data,
                                r.ret, r.ret # NoId)
                          @@ [read_ok |-> read_ok, write_ok |-> write_ok]
            /\ UNCHANGED <<editing_interview_id, session, inflight>>

\* "Save Section A"; lastOp keeps the session state before (s) and after it.
\* The duplicate check may fail on its own; the two queries of save_draft that
\* follow it go through or fail together here (CallSaveDraftOnStore has them
\* fail one by one).
SaveSectionAOnStore ==
    \E s \in Sessions(now), in \in SectionAInputs,
       check_ok \in BOOLEAN, write_ok \in BOOLEAN :
        LET read_ok == write_ok
            h == display_section_a_on_store(responses, s, in, now,
                                            check_ok, read_ok, write_ok)
        IN  /\ responses' = h.tbl
            /\ lastOp' = Op("save_section_a", s.current_interview_id,
                            in.business_name, h)
                          @@ [s |-> s, after |-> h.s, check_ok |-> check_ok,
                              read_ok |-> read_ok, write_ok |-> write_ok]
            /\ UNCHANGED <<now, editing_interview_id, session, inflight>>

NextFail ==
    \/ CallSaveDraftOnStore
    \/ SaveSectionAOnStore

SpecFail == Init /\ [][NextFail]_vars

\* ------------------------------------------------ the two calculators alone
\* A form-data key is absent (<<FALSE, _>>) or present with a value (<<TRUE, v>>)
Absent == <<FALSE, 0>>
Present(v) == <<TRUE, v>>

DictOf(full) == [k \in {j \in DOMAIN full : full[j][1]} |-> full[k][2]]

\* the form-data dictionaries calculate_progress is applied to: every key
\* absent, empty or filled in; the two lists as a list, as the text json.dumps
\* makes of it (as load_draft_into_session leaves reform_priorities) and, for
\* reform_priorities, as the text of that text
ProgressForms ==
    {DictOf([business_name |-> bn, contact_person |-> cp, procedure_data |-> pd,
             completion_time_local |-> cl, completion_time_national |-> cn,
             reform_priorities |-> rp]) :
        bn \in {Absent, Present(""), Present(DataName)},
        cp \in {Absent, Present(""), Present(Contact)},
        pd \in {Absent, Present(PyList(<<>>)), Present(PyList(<<P1>>)),
                Present(json_dumps(PyList(<<>>))), Present(json_dumps(PyList(<<P1>>)))},
        cl \in {Absent, Present(0), Present(60)},
        cn \in {Absent, Present(40)},
        rp \in {Absent, Present(PyList(<<>>)), Present(PyList(<<Reform>>)),
                Present(json_dumps(PyList(<<>>))), Present(json_dumps(PyList(<<Reform>>))),
                Present(json_dumps(json_dumps(PyList(<<>>))))}}

\* the totals the risk score is computed from
Costs == {0, 1, 20000, 50000, 99999, 100000, 100001, 250000}
Times == {0, 1, 182, 292, 364, 365, 366, 1000}

\* DraftManager().calculate_progress(form_data, current_section)
CalculateProgress ==
    \E form_data \in ProgressForms :
        /\ lastOp' = [op |-> "calculate_progress", data |-> form_data,
                      ret |-> calculate_progress(form_data)]
        /\ UNCHANGED <<responses, now, editing_interview_id, session, inflight>>

\* risk_score = min((total_cost / 100000 + total_time / 365) * 10, 10)
ComputeRiskScore ==
    \E total_cost \in Costs, total_time \in Times :
        /\ lastOp' = [op |-> "risk_score", total_cost |-> total_cost,
                      total_time |-> total_time,
                      ret |-> RiskScore(total_cost, total_time)]
        /\ UNCHANGED <<responses, now, editing_interview_id, session, inflight>>

\* the three metrics of a procedure list (save_draft, recalculate_totals)
ComputeMetrics ==
    \E procs \in ProcLists \cup {<<P1>>, <<P2, PBig>>} :
        /\ lastOp' = [op |-> "metrics", procs |-> procs,
                      total_cost |-> SumCost(procs), total_time |-> SumTime(procs),
                      ret |-> RiskScore(SumCost(procs), SumTime(procs))]
        /\ UNCHANGED <<responses, now, editing_interview_id, session, inflight>>

NextCalc ==
    \/ CalculateProgress
    \/ ComputeRiskScore
    \/ ComputeMetrics

SpecCalc == Init /\ [][NextCalc]_vars

\* ------------------------------------------------- one session, followed
\* The credential tables (the interviewer and the administrator modelled)
INTERVIEWER_CREDENTIALS ==
    [u \in Interviewers |-> [password |-> "fizie2024", role |-> "interviewer"]]

ADMIN_CREDENTIALS ==
    [u \in Admins |-> [password |-> "compliance2024", role |-> "admin"]]

\* what can be typed into the login forms
LoginNames == Interviewers \cup Admins
Passwords == {"fizie2024", "compliance2024"}

\* a login that leaves the session logged out
login_as_interviewer_without_flag(s, interviewer, password) ==
    IF interviewer \in DOMAIN INTERVIEWER_CREDENTIALS
       /\ password = INTERVIEWER_CREDENTIALS[interviewer].password
    THEN [s EXCEPT !.current_user = interviewer,
                   !.user_role = "interviewer", !.interviewer_logged_in = TRUE]
    ELSE s

\* display_login, "Login as Interviewer"
login_as_interviewer(s, interviewer, password) ==
    IF interviewer \in DOMAIN INTERVIEWER_CREDENTIALS
       /\ password = INTERVIEWER_CREDENTIALS[interviewer].password
    THEN [s EXCEPT !.logged_in = TRUE, !.current_user = interviewer,
                   !.user_role = "interviewer", !.interviewer_logged_in = TRUE]
    ELSE s

\* display_login, "Login as Admin/Researcher"
login_as_admin(s, admin_user, admin_password) ==
    IF admin_user \in DOMAIN ADMIN_CREDENTIALS
       /\ admin_password = ADMIN_CREDENTIALS[admin_user].password
    THEN [s EXCEPT !.logged_in = TRUE, !.current_user = admin_user,
                   !.user_role = ADMIN_CREDENTIALS[admin_user].role,
                   !.admin_logged_in = TRUE]
    ELSE s

\* reset_interview
reset_interview(s) ==
    [s EXCEPT !.current_interview_id = NoId, !.form_data = EmptyDict,
              !.procedures_list = <<>>, !.selected_isic_codes = <<>>,
              !.current_section = "A"]

\* display_main_app, "Logout"
logout_button(s) ==
    reset_interview([s EXCEPT !.logged_in = FALSE, !.current_user = NoUser,
                              !.user_role = NoUser,
                              !.interviewer_logged_in = FALSE,
                              !.admin_logged_in = FALSE])

\* json.loads under try/except that falls back to the empty list
loads_or_empty(text) ==
    IF json_loads_raises(text) THEN PyList(<<>>) ELSE json_loads(text)

\* load_draft_into_session: an embedded list read back from its column
\* (None, 'null' and '[]' are not decoded)
load_embedded_list(text) ==
    IF TruthyVal(text) /\ text # json_dumps(PyList(<<>>))
    THEN loads_or_empty(text)
    ELSE PyList(<<>>)

\* load_draft_into_session ("Continue" on a draft): form_data is rebuilt
\* from the scalar columns and the stored reform_priorities text; the
\* procedure and ISIC lists are decoded into their own session keys
load_draft_into_session(tbl, s, interview_id) ==
    IF interview_id \notin DOMAIN tbl THEN s
    ELSE LET draft_data == tbl[interview_id]
         IN  [s EXCEPT
                !.current_interview_id = interview_id,
                !.form_data =
                    [business_name |-> draft_data.business_name,
                     contact_person |-> draft_data.contact_person,
                     year_established |-> draft_data.year_established,
                     completion_time_local |-> draft_data.completion_time_local,
                     completion_time_national |-> draft_data.completion_time_national,
                     reform_priorities |-> draft_data.reform_priorities],
                !.procedures_list = load_embedded_list(draft_data.procedure_data).v,
                !.selected_isic_codes = load_embedded_list(draft_data.isic_codes).v,
                !.current_section = draft_data.current_section]

\* an editor rendered for every logged-in session
interview_editor_for_all(s) == s.logged_in

\* interview_editor_main: the editor is rendered for administrators only
interview_editor_main(s) == s.admin_logged_in

\* the section pages a logged-in session can put in its main area
SectionPages == {"A", "B", "C", "D"}

\* the procedure the "Add Procedure" form appends
FollowedProcedure == P2
MaxListLen == 1
\* a draft is reloaded while its reform_priorities text is encoded this deep
MaxEncoding == 1

\* display_login: "Login as Interviewer" (shown while not logged_in)
LoginAsInterviewer ==
    \E interviewer \in Interviewers, password \in Passwords :
        /\ ~session.logged_in
        /\ session' = login_as_interviewer(session, interviewer, password)
        /\ lastOp' = Plain("login_interviewer", NoId, interviewer, session'.logged_in)
        /\ UNCHANGED <<responses, now, editing_interview_id, inflight>>

\* display_login: "Login as Admin/Researcher" (shown while not logged_in)
LoginAsAdmin ==
    \E admin_user \in LoginNames, admin_password \in Passwords :
        /\ ~session.logged_in
        /\ session' = login_as_admin(session, admin_user, admin_password)
        /\ lastOp' = Plain("login_admin", NoId, admin_user, session'.logged_in)
        /\ UNCHANGED <<responses, now, editing_interview_id, inflight>>

\* display_main_app: "Logout"
Logout ==
    /\ session.logged_in
    /\ session' = logout_button(session)
    /\ lastOp' = Plain("logout", session.current_interview_id, session.current_user, TRUE)
    /\ UNCHANGED <<responses, now, editing_interview_id, inflight>>

\* display_main_app: the interviewer's section buttons in the side bar
Navigate(Pages) ==
    \E page \in Pages :
        /\ session.interviewer_logged_in
        /\ session.current_section # page
        /\ session' = [session EXCEPT !.current_section = page]
        /\ lastOp' = Plain("navigate", NoId, page, TRUE)
        /\ UNCHANGED <<responses, now, editing_interview_id, inflight>>

\* display_dashboard / show_completion_actions: "Start New Interview"
StartNewInterview ==
    /\ session.logged_in
    /\ session.current_interview_id # NoId
    /\ session' = reset_interview(session)
    /\ lastOp' = Plain("reset_interview", NoId, "", TRUE)
    /\ UNCHANGED <<responses, now, editing_interview_id, inflight>>

\* display_draft_quick_access / display_draft_card: "Continue" on a listed draft
ContinueDraft ==
    \E id \in Ids :
        /\ session.logged_in
        /\ responses[id].status = "draft"
        /\ session.admin_logged_in \/ responses[id].created_by = session.current_user
        /\ responses[id].reform_priorities.enc <= MaxEncoding
        /\ session' = load_draft_into_session(responses, session, id)
        /\ lastOp' = Plain("load_draft", id, responses[id].business_name, TRUE)
        /\ UNCHANGED <<responses, now, editing_interview_id, inflight>>

\* enhanced_section_b: a procedure is appended to procedures_list
AddProcedure ==
    /\ session.logged_in
    /\ session.current_section = "B"
    /\ Len(session.procedures_list) < MaxListLen
    /\ session' = [session EXCEPT !.procedures_list = Append(@, FollowedProcedure)]
    /\ lastOp' = Plain("add_procedure", NoId, "", TRUE)
    /\ UNCHANGED <<responses, now, editing_interview_id, inflight>>

\* the section handlers run on the followed session
FollowedSaveSectionA(I) ==
    \E in \in I :
        LET h == display_section_a(responses, session, in, now)
        IN  /\ session.logged_in
            /\ session.current_section = "A"
            /\ responses' = h.tbl
            /\ session' = h.s
            /\ lastOp' = Op("save_section_a", session.current_interview_id,
                            in.business_name, h)
            /\ UNCHANGED <<now, editing_interview_id, inflight>>

FollowedSaveProcedures ==
    LET h == enhanced_section_b(responses, session, now)
    IN  /\ session.logged_in
        /\ session.current_section = "B"
        /\ responses' = h.tbl
        /\ session' = h.s
        /\ lastOp' = Op("save_procedures", session.current_interview_id,
                        Get(h.data, "business_name", ""), h)
        /\ UNCHANGED <<now, editing_interview_id, inflight>>

FollowedSaveSectionC ==
    \E in \in SectionCInputs :
        LET h == display_section_c(responses, session, in, now)
        IN  /\ session.logged_in
            /\ session.current_section = "C"
            /\ responses' = h.tbl
            /\ session' = h.s
            /\ lastOp' = Op("save_section_c", session.current_interview_id,
                            Get(h.data, "business_name", ""), h)
            /\ UNCHANGED <<now, editing_interview_id, inflight>>

FollowedSaveSectionD(R) ==
    \E selected_reforms \in R :
        LET h == display_section_d_save(responses, session, selected_reforms, now)
        IN  /\ session.logged_in
            /\ session.current_section = "D"
            /\ responses' = h.tbl
            /\ session' = h.s
            /\ lastOp' = Op("save_section_d", session.current_interview_id,
                            Get(h.data, "business_name", ""), h)
            /\ UNCHANGED <<now, editing_interview_id, inflight>>

FollowedSubmit(R) ==
    \E selected_reforms \in R :
        LET h == display_section_d_submit(responses, session, selected_reforms, now)
        IN  /\ session.logged_in
            /\ session.current_section = "D"
            /\ responses' = h.tbl
            /\ session' = h.s
            /\ lastOp' = Op("submit_final", session.current_interview_id,
                            Get(h.data, "business_name", ""), h)
            /\ UNCHANGED <<now, editing_interview_id, inflight>>

\* the Section A form filled in for the one business of SpecSession
LoginSectionAInputs ==
    [business_name : {DataName}, contact_person : {Contact},
     year_established : {YearDefault}]

\* One browser session from login to logout, as interviewer or administrator:
\* it saves Section A, submits, and opens the editor (whose handlers are
\* behind the gate of interview_editor_main), all within one second of the
\* clock
NextSession ==
    \/ LoginAsInterviewer
    \/ LoginAsAdmin
    \/ Logout
    \/ Navigate({"A", "D"})
    \/ StartNewInterview
    \/ ContinueDraft
    \/ FollowedSaveSectionA(LoginSectionAInputs)
    \/ FollowedSubmit(ReformLists)
    \/ interview_editor_main(session) /\ SelectInterview
    \/ interview_editor_main(session) /\ BackToList
    \/ interview_editor_main(session) /\ EditBasicInformation
    \/ interview_editor_main(session) /\ RevertToDraft
    \/ interview_editor_main(session) /\ DeleteInterview

SpecSession == Init /\ [][NextSession]_vars

\* One interviewer's session over the sections of one business: it saves,
\* reloads drafts and submits
NextReload ==
    \/ LoginAsInterviewer
    \/ Navigate(SectionPages)
    \/ StartNewInterview
    \/ ContinueDraft
    \/ AddProcedure
    \/ FollowedSaveSectionA(DataSectionAInputs)
    \/ FollowedSaveProcedures
    \/ FollowedSaveSectionC
    \/ FollowedSaveSectionD(DataReformLists)
    \/ FollowedSubmit(DataReformLists)

SpecReload == Init /\ [][NextReload]_vars

\* ------------------------------------------- reading the embedded JSON back
\* a stored text that is not JSON
MalformedText == [enc |-> 1, v |-> <<>>, malformed |-> TRUE]

Reform2 == "Reduce number of required documents"

\* what the procedure_data column may hold
StoredProcedureTexts ==
    {json_dumps(PyList(l)) :
        l \in {<<>>, <<P1>>, <<P2>>, <<P1, P2>>, <<P2, P1>>, <<P1, P1>>, <<PBig>>}}
    \cup {MalformedText}

\* what the reform_priorities and isic_codes columns may hold
StoredStringListTexts ==
    {json_dumps(PyList(l)) : l \in {<<>>, <<Reform>>, <<Reform, Reform2>>}}
    \cup {MalformedText}

\* a submitted row with these texts in its three embedded-list columns
StoredRow(procedure_data, reform_priorities, isic_codes) ==
    [procedure_data |-> procedure_data, reform_priorities |-> reform_priorities,
     isic_codes |-> isic_codes, status |-> "submitted", submission_date |-> 0]
    @@ SavedColumns(SectionAData(DataName), "Fizie Fulumaka", "D", 0)

\* the outcome of a read: whether an exception left the function (raised),
\* whether st.error showed a message (error), and the lists it decoded
ReadOutcome(raised, error, procedures, strings) ==
    [raised |-> raised, error |-> error, procedures |-> procedures, strings |-> strings]

\* display_interview_details: json.loads of procedure_data and of
\* reform_priorities, neither inside a try
display_interview_details(row) ==
    LET fails(text) == TruthyVal(text) /\ json_loads_raises(text)
        decoded(text) == IF TruthyVal(text) THEN json_loads(text).v ELSE <<>>
    IN  IF fails(row.procedure_data) \/ fails(row.reform_priorities)
        THEN ReadOutcome(TRUE, FALSE, <<>>, <<>>)
        ELSE ReadOutcome(FALSE, FALSE, decoded(row.procedure_data),
                         decoded(row.reform_priorities))

\* get_analytics_data: json_extract(procedure_data, '$') in the SELECT raises
\* on a text that is not JSON; the outer except shows the error and returns
\* empty frames
get_analytics_data(row) ==
    IF json_loads_raises(row.procedure_data)
    THEN ReadOutcome(FALSE, TRUE, <<>>, <<>>)
    ELSE ReadOutcome(FALSE, FALSE, load_embedded_list(row.procedure_data).v, <<>>)

ReadOp(op, row, outcome) ==
    [op |-> op, procedure_data |-> row.procedure_data,
     reform_priorities |-> row.reform_priorities, isic_codes |-> row.isic_codes]
    @@ outcome

\* "Continue" on the row: load_draft_into_session
ReadLoadDraft ==
    \E p \in StoredProcedureTexts, i \in StoredStringListTexts :
        LET row == StoredRow(p, json_dumps(PyList(<<>>)), i)
            s == load_draft_into_session(0 :> row, InitialSession, 0)
        IN  /\ lastOp' = ReadOp("load_draft_into_session", row,
                            ReadOutcome(FALSE, FALSE, s.procedures_list,
                                        s.selected_isic_codes))
            /\ UNCHANGED <<responses, now, editing_interview_id, session, inflight>>

\* calculate_progress on the row's columns
ReadCalculateProgress ==
    \E p \in StoredProcedureTexts, r \in StoredStringListTexts :
        LET row == StoredRow(p, r, json_dumps(PyList(<<>>)))
        IN  /\ lastOp' = ReadOp("calculate_progress", row,
                            ReadOutcome(FALSE, FALSE, <<>>, <<>>))
                         @@ [ret |-> calculate_progress(row)]
            /\ UNCHANGED <<responses, now, editing_interview_id, session, inflight>>

\* edit_compliance_procedures on the row
ReadEditProcedures ==
    \E p \in StoredProcedureTexts :
        LET row == StoredRow(p, json_dumps(PyList(<<>>)), json_dumps(PyList(<<>>)))
        IN  /\ lastOp' = ReadOp("edit_compliance_procedures", row,
                            ReadOutcome(FALSE, FALSE, StoredProcedures(row), <<>>))
            /\ UNCHANGED <<responses, now, editing_interview_id, session, inflight>>

\* get_analytics_data over a table holding the row
ReadAnalytics ==
    \E p \in StoredProcedureTexts :
        LET row == StoredRow(p, json_dumps(PyList(<<>>)), json_dumps(PyList(<<>>)))
        IN  /\ lastOp' = ReadOp("get_analytics_data", row, get_analytics_data(row))
            /\ UNCHANGED <<responses, now, editing_interview_id, session, inflight>>

\* display_interview_details on the row
ReadInterviewDetails ==
    \E p \in StoredProcedureTexts, r \in StoredStringListTexts :
        LET row == StoredRow(p, r, json_dumps(PyList(<<>>)))
        IN  /\ lastOp' = ReadOp("display_interview_details", row,
                            display_interview_details(row))
            /\ UNCHANGED <<responses, now, editing_interview_id, session, inflight>>

\* The five read paths of the embedded lists, each applied to stored texts
NextRead ==
    \/ ReadLoadDraft
    \/ ReadCalculateProgress
    \/ ReadEditProcedures
    \/ ReadAnalytics
    \/ ReadInterviewDetails

SpecRead == Init /\ [][NextRead]_vars

\* ------------------------------------------- two sessions, statement by statement
\* Each execute_query opens its own connection and commits on its own, so a
\* call of save_draft or submit_final is two statements with other sessions'
\* statements free to run in between. inflight[tab] is the call a browser tab
\* has begun: what its first statement returned and what it is about to write;
\* overtaken records that another tab wrote the same row in the meantime.
Tabs == {"tab1", "tab2"}

\* what the two tabs hand to save_draft
RaceForms == {SectionAData(n) : n \in Names}

\* save_draft down to its SELECT: the id, the columns it will write (their
\* current_time already taken) and whether the lookup found the row
save_draft_lookup(tbl, data, interview_id, current_user, current_section, t) ==
    LET id == IF interview_id = NoId THEN generate_interview_id(t) ELSE interview_id
    IN  [op |-> "save_draft", interview_id |-> id, form_data |-> data,
         cols |-> SavedColumns(data, current_user, current_section, t),
         found |-> id \in DOMAIN tbl, overtaken |-> FALSE]

\* a write that gives way to a row stamped later than the call
save_draft_write_if_newer(tbl, call) ==
    LET id == call.interview_id
    IN  IF call.found /\ id \in DOMAIN tbl
           /\ tbl[id].last_modified <= call.cols.last_modified
        THEN [tbl |-> [tbl EXCEPT ![id] =
                        call.cols @@ [status |-> @.status,
                                      submission_date |-> @.submission_date]],
              ret |-> id]
        ELSE IF call.found \/ id \in DOMAIN tbl
        THEN [tbl |-> tbl, ret |-> IF call.found THEN id ELSE NoId]
        ELSE [tbl |-> (id :> (call.cols @@ [status |-> "draft",
                                            submission_date |-> call.cols.last_modified]))
                      @@ tbl,
              ret |-> id]

\* save_draft from its UPDATE / INSERT on: an UPDATE of a row that is gone
\* changes nothing and still succeeds; an INSERT of an id that has a row by
\* now is rejected by interview_id TEXT UNIQUE and save_draft returns None
save_draft_write(tbl, call) ==
    LET id == call.interview_id
    IN  IF call.found
        THEN [tbl |-> IF id \in DOMAIN tbl
                      THEN [tbl EXCEPT ![id] =
                              call.cols @@ [status |-> @.status,
                                            submission_date |-> @.submission_date]]
                      ELSE tbl,
              ret |-> id]
        ELSE IF id \in DOMAIN tbl
        THEN [tbl |-> tbl, ret |-> NoId]
        ELSE [tbl |-> (id :> (call.cols @@ [status |-> "draft",
                                            submission_date |-> call.cols.last_modified]))
                      @@ tbl,
              ret |-> id]

\* submit_final from its UPDATE on
submit_final_write(tbl, interview_id, t) ==
    [i \in DOMAIN tbl |->
        IF i = interview_id
        THEN [tbl[i] EXCEPT !.status = "submitted", !.submission_date = t]
        ELSE tbl[i]]

Returned(tab) == [t \in DOMAIN inflight \ {tab} |-> inflight[t]]

\* the other tabs' calls on the row just written learn they were overtaken
Overtake(calls, tab, interview_id) ==
    [t \in DOMAIN calls |->
        IF t # tab /\ calls[t].interview_id = interview_id
        THEN [calls[t] EXCEPT !.overtaken = TRUE]
        ELSE calls[t]]

\* a tab calls save_draft (a section's save button), or presses "Submit
\* Complete Interview" (next = "submit_final"): the call runs up to its SELECT
SaveDraftLookup(next) ==
    \E tab \in Tabs \ DOMAIN inflight, data \in RaceForms,
       interview_id \in {NoId} \cup Ids, current_user \in Interviewers :
        LET call == save_draft_lookup(responses, data, interview_id,
                                      current_user, "D", now)
        IN  /\ inflight' = (tab :> (call @@ [next |-> next])) @@ inflight
            /\ lastOp' = [op |-> "save_draft_lookup", tab |-> tab,
                          id |-> call.interview_id, found |-> call.found]
            /\ UNCHANGED <<responses, now, editing_interview_id, session>>

\* the call's UPDATE or INSERT runs; save_draft returns, and submit_final
\* starts if the button was "Submit Complete Interview" and an id came back
SaveDraftWrite ==
    \E tab \in DOMAIN inflight :
        LET call == inflight[tab]
            w == save_draft_write(responses, call)
        IN  /\ call.op = "save_draft"
            /\ responses' = w.tbl
            /\ inflight' =
                 Overtake(IF call.next = "submit_final" /\ w.ret # NoId
                          THEN [inflight EXCEPT ![tab] =
                                  [op |-> "submit_final", stage |-> "check",
                                   interview_id |-> w.ret,
                                   form_data |-> call.form_data,
                                   overtaken |-> FALSE]]
                          ELSE Returned(tab),
                          tab, call.interview_id)
            /\ lastOp' = [op |-> "save_draft", tab |-> tab, id |-> call.interview_id,
                          found |-> call.found, cols |-> call.cols,
                          overtaken |-> call.overtaken, ret |-> w.ret,
                          was |-> StatusOf(responses, call.interview_id)]
            /\ UNCHANGED <<now, editing_interview_id, session>>

\* the tabs whose submit_final is under way for another row of that name
RacingSubmits(tab, interview_id, business_name) ==
    {t \in DOMAIN inflight \ {tab} :
        /\ inflight[t].op = "submit_final"
        /\ inflight[t].interview_id # interview_id
        /\ Get(inflight[t].form_data, "business_name", "") = business_name}

\* submit_final: the duplicate check; a duplicate ends the call with False
SubmitFinalCheck ==
    \E tab \in DOMAIN inflight :
        LET call == inflight[tab]
            business_name == Get(call.form_data, "business_name", "")
            duplicate == check_duplicate_business_name(responses, business_name,
                                                       call.interview_id)
        IN  /\ call.op = "submit_final"
            /\ call.stage = "check"
            /\ inflight' = IF duplicate THEN Returned(tab)
                           ELSE [inflight EXCEPT ![tab].stage = "write"]
            /\ lastOp' = [op |-> "submit_final_check", tab |-> tab,
                          id |-> call.interview_id, name |-> business_name,
                          racing |-> RacingSubmits(tab, call.interview_id, business_name),
                          ret |-> ~duplicate]
            /\ UNCHANGED <<responses, now, editing_interview_id, session>>

\* submit_final: the status write; the call returns True
SubmitFinalWrite ==
    \E tab \in DOMAIN inflight :
        LET call == inflight[tab]
        IN  /\ call.op = "submit_final"
            /\ call.stage = "write"
            /\ responses' = submit_final_write(responses, call.interview_id, now)
            /\ inflight' = Overtake(Returned(tab), tab, call.interview_id)
            /\ lastOp' = [op |-> "submit_final_write", tab |-> tab,
                          id |-> call.interview_id,
                          name |-> Get(call.form_data, "business_name", ""),
                          overtaken |-> call.overtaken, ret |-> TRUE]
            /\ UNCHANGED <<now, editing_interview_id, session>>

\* Two tabs saving and submitting, their statements interleaved
NextRace ==
    \/ Tick
    \/ SaveDraftLookup("return")
    \/ SaveDraftLookup("submit_final")
    \/ SaveDraftWrite
    \/ SubmitFinalCheck
    \/ SubmitFinalWrite

SpecRace == Init /\ [][NextRace]_vars

\* --------------------------------------- submit_final on a store that may fail
\* submit_final: the duplicate check answers False when its query fails, and
\* the status write follows
submit_final_on_store(tbl, form_data, interview_id, t, check_ok, write_ok) ==
    LET business_name == Get(form_data, "business_name", "")
    IN  IF check_duplicate_on_store(tbl, business_name, interview_id, check_ok)
        THEN [tbl |-> tbl, ret |-> FALSE]
        ELSE IF write_ok
        THEN [tbl |-> submit_final_write(tbl, interview_id, t), ret |-> TRUE]
        ELSE [tbl |-> tbl, ret |-> FALSE]

CallSubmitFinalOnStore ==
    \E form_data \in RaceForms, interview_id \in Ids, t \in CallTimes,
       check_ok \in BOOLEAN, write_ok \in BOOLEAN :
        LET r == submit_final_on_store(responses, form_data, interview_id, t,
                                       check_ok, write_ok)
        IN  /\ responses' = r.tbl
            /\ now' = t
            /\ lastOp' = Called("op_submit_final", interview_id, "D", form_data,
                                interview_id, r.ret)
                          @@ [check_ok |-> check_ok, write_ok |-> write_ok,
                              others |-> {j \in Ids \ {interview_id} :
                                            responses[j].business_name
                                            = Get(form_data, "business_name", "")}]
            /\ UNCHANGED <<editing_interview_id, session, inflight>>

\* save_draft with the store up, for the rows submit_final is called on
CallSaveDraftOfBusiness ==
    \E data \in RaceForms, interview_id \in OpIds, u \in Interviewers, t \in CallTimes :
        LET r == save_draft(responses, data, interview_id, u, "D", t)
        IN  /\ responses' = r.tbl
            /\ now' = t
            /\ lastOp' = Called("op_save_draft", interview_id, "D", data,
                                r.ret, r.ret # NoId)
            /\ UNCHANGED <<editing_interview_id, session, inflight>>

NextSubmitFail ==
    \/ CallSaveDraftOfBusiness
    \/ CallSubmitFinalOnStore

SpecSubmitFail == Init /\ [][NextSubmitFail]_vars

\* ------------------------------------------------ the editor's update and its log
\* edit_logs is written by the editor and never read back; the model keeps
\* the rows a call inserts into it (lastOp.logged), not the table.

\* InterviewEditor.log_edit_action(username, interview_id, changes): the row
\* inserted into edit_logs
log_edit_action(username, interview_id, changes, t) ==
    <<[username |-> username, interview_id |-> interview_id, action |-> "edit",
       changes |-> changes, timestamp |-> t]>>

\* the updates dictionaries the editor's forms build: Basic Information and
\* Recalculate Totals
EditorUpdates ==
    {[business_name |-> n, contact_person |-> Contact] : n \in Names}
    \cup {[total_compliance_cost |-> SumCost(<<P1>>),
           total_compliance_time |-> SumTime(<<P1>>),
           risk_score |-> RiskScore(SumCost(<<P1>>), SumTime(<<P1>>))]}

\* InterviewEditor.update_interview(interview_id, updates), called by the
\* session of administrator current_user
CallUpdateInterview ==
    \E interview_id \in OpIds \ {NoId}, updates \in EditorUpdates,
       current_user \in Admins, t \in CallTimes :
        /\ responses' = update_interview(responses, interview_id, updates, t)
        /\ now' = t
        /\ lastOp' = Called("op_update_interview", interview_id, "", EmptyDict,
                            interview_id, TRUE)
                      @@ [updates |-> updates,
                          logged |-> log_edit_action(current_user, interview_id,
                                                     updates, t)]
        /\ UNCHANGED <<editing_interview_id, session, inflight>>

\* Rows saved and submitted by interviewers, then patched by the editor
NextPatch ==
    \/ CallSaveDraftOfBusiness
    \/ CallSubmitFinal
    \/ CallUpdateInterview

SpecPatch == Init /\ [][NextPatch]_vars

\* ------------------------------------------------------------------ claims
SaveOps == {"save_section_a", "save_procedures", "save_section_c", "save_section_d"}

\* C1: a row's status goes from 'draft' to 'submitted' only in a step of
\* submit_final and from 'submitted' to 'draft' only in a step of
\* revert_to_draft; every other step leaves the status of every row it keeps.
C1_StatusOnlyBySubmitOrRevert ==
    [][\A i \in DOMAIN responses \cap DOMAIN responses' :
          responses'[i].status # responses[i].status =>
             \/ /\ responses[i].status = "draft"
                /\ responses'[i].status = "submitted"
                /\ lastOp'.op = "submit_final"
             \/ /\ responses[i].status = "submitted"
                /\ responses'[i].status = "draft"
                /\ lastOp'.op = "revert_to_draft"]_vars

\* C1 witness: save_draft has run on the id of a submitted row and the row is
\* still submitted.
C1_Witness ==
    /\ lastOp.op \in SaveOps
    /\ lastOp.ok
    /\ lastOp.id # NoId
    /\ lastOp.was = "submitted"
    /\ responses[lastOp.id].status = "submitted"

\* C2 (the claim as stated): no step changes the submission_date of a row that
\* is submitted.
C2_SubmissionDateHeld ==
    [][\A i \in DOMAIN responses \cap DOMAIN responses' :
          responses[i].status = "submitted" =>
             responses'[i].submission_date = responses[i].submission_date]_vars

\* C3: when submit_final runs for a draft whose business name is the business
\* name of another row that is submitted, it returns False and the draft stays
\* a draft.
C3_DuplicateNameGate ==
    [][(/\ lastOp'.op = "submit_final"
        /\ lastOp'.ret # NoId
        /\ lastOp'.was # "submitted"
        /\ \E j \in DOMAIN responses \ {lastOp'.ret} :
              /\ responses[j].status = "submitted"
              /\ responses[j].business_name = responses'[lastOp'.ret].business_name)
       => (~lastOp'.ok /\ responses'[lastOp'.ret].status = "draft")]_vars

\* C3 witness: a submission was refused, the row is a draft and another,
\* submitted row carries its business name.
C3_Witness ==
    /\ lastOp.op = "submit_final"
    /\ ~lastOp.ok
    /\ lastOp.ret \in Ids
    /\ responses[lastOp.ret].status = "draft"
    /\ \E j \in Ids \ {lastOp.ret} :
          /\ responses[j].status = "submitted"
          /\ responses[j].business_name = responses[lastOp.ret].business_name

\* C4 (the claim as stated): submit_final with an empty business name is refused.
C4_SubmitRequiresName ==
    (lastOp.op = "submit_final" /\ lastOp.name = "") => ~lastOp.ok

\* C5 (the claim as stated): no two submitted rows carry the same business name.
C5_SubmittedNamesUnique ==
    \A i, j \in Ids :
        (/\ i # j
         /\ responses[i].status = "submitted"
         /\ responses[j].status = "submitted")
        => responses[i].business_name # responses[j].business_name

\* C6: the Section A save and the submission are refused for a duplicate
\* exactly when a row with a different interview_id carries the business name;
\* the row of the session's own id never counts.
C6_DuplicateCheckExcludesOwnId ==
    [][/\ (lastOp'.op = "save_section_a" /\ lastOp'.name # "")
          => (~lastOp'.ok <=>
                \E j \in DOMAIN responses :
                    j # lastOp'.id /\ responses[j].business_name = lastOp'.name)
       /\ (lastOp'.op = "submit_final" /\ lastOp'.ret # NoId)
          => (~lastOp'.ok <=>
                \E j \in DOMAIN responses \ {lastOp'.ret} :
                    responses[j].business_name = lastOp'.name)]_vars

\* C6 witness: Section A was saved again on a row that exists, under a name
\* that only this row carries.
C6_Witness ==
    /\ lastOp.op = "save_section_a"
    /\ lastOp.ok
    /\ lastOp.was # "absent"
    /\ lastOp.id # NoId
    /\ responses[lastOp.id].business_name = lastOp.name
    /\ \A j \in Ids \ {lastOp.id} : responses[j].business_name # lastOp.name

\* C7 (the claim as stated): a save_draft without interview_id, or with an id
\* that has no row, inserts one new row, a draft whose submission_date and
\* last_modified are the current time, and returns its id.
C7_SaveWithoutRowInserts ==
    [][(/\ lastOp'.op \in SaveOps
        /\ lastOp'.ok
        /\ lastOp'.id = NoId \/ lastOp'.id \notin DOMAIN responses)
       => /\ lastOp'.ret \notin DOMAIN responses
          /\ DOMAIN responses' = DOMAIN responses \cup {lastOp'.ret}
          /\ responses'[lastOp'.ret].status = "draft"
          /\ responses'[lastOp'.ret].submission_date = now
          /\ responses'[lastOp'.ret].last_modified = now]_vars

\* C8 (the claim as stated): a save_draft without interview_id creates a new
\* row and leaves every existing row as it was.
C8_MintedIdIsNew ==
    [][(lastOp'.op \in SaveOps /\ lastOp'.id = NoId /\ lastOp'.ok)
       => /\ lastOp'.ret \notin DOMAIN responses
          /\ \A i \in DOMAIN responses : responses'[i] = responses[i]]_vars

\* the zero value of every scalar form column, and the list form columns
ScalarZero ==
    [business_name |-> "", contact_person |-> "", year_established |-> 0,
     completion_time_local |-> 0, completion_time_national |-> 0]

ListColumns == {"isic_codes", "procedure_data", "reform_priorities"}

EmptyEncodedList == [enc |-> 1, v |-> <<>>]

\* C9: a save_draft on the id of an existing row leaves in every form column
\* the value of the form-data dictionary, the zero value for a scalar the
\* dictionary lacks and the empty encoded list for a list it lacks.
C9_UpdateOverwritesEveryColumn ==
    [][(/\ lastOp'.op \in SaveOps
        /\ lastOp'.ok
        /\ lastOp'.id \in DOMAIN responses)
       => LET row == responses'[lastOp'.id]
              d == lastOp'.data
          IN  /\ \A k \in DOMAIN ScalarZero :
                    row[k] = IF k \in DOMAIN d THEN d[k] ELSE ScalarZero[k]
              /\ \A k \in ListColumns :
                    row[k] = IF k \in DOMAIN d
                             THEN [enc |-> d[k].enc + 1, v |-> d[k].v]
                             ELSE EmptyEncodedList]_vars

\* C9 witness: a row that existed was saved from a dictionary without the
\* procedures and without the Section C answers, and holds their zero values.
C9_Witness ==
    /\ lastOp.op \in SaveOps
    /\ lastOp.ok
    /\ lastOp.id # NoId
    /\ lastOp.was # "absent"
    /\ "procedure_data" \notin DOMAIN lastOp.data
    /\ "completion_time_local" \notin DOMAIN lastOp.data
    /\ responses[lastOp.id].procedure_data = EmptyEncodedList
    /\ responses[lastOp.id].completion_time_local = 0

\* the procedures of the dictionary handed to save_draft
SavedProcedures(d) == IF "procedure_data" \in DOMAIN d THEN d.procedure_data.v ELSE <<>>

FieldOf(proc, f) == IF f \in DOMAIN proc THEN proc[f] ELSE 0

RECURSIVE FieldSum(_, _)
FieldSum(procs, f) ==
    IF Len(procs) = 0 THEN 0
    ELSE FieldOf(procs[Len(procs)], f) + FieldSum(SubSeq(procs, 1, Len(procs) - 1), f)

\* C10: after a successful save_draft the row holds total_compliance_cost =
\* sum of official_fees + unofficial_payments, total_compliance_time = sum of
\* total_days, and risk_score = min((cost/100000 + time/365) * 10, 10), that
\* is 5 * risk_score * RiskDen = min(365 * cost + 100000 * time, 36500000).
C10_StoredMetrics ==
    (lastOp.op \in SaveOps /\ lastOp.ok)
    => LET row == responses[lastOp.ret]
           procs == SavedProcedures(lastOp.data)
           cost == FieldSum(procs, "official_fees") + FieldSum(procs, "unofficial_payments")
           time == FieldSum(procs, "total_days")
       IN  /\ row.total_compliance_cost = cost
           /\ row.total_compliance_time = time
           /\ 5 * row.risk_score =
                 IF 365 * cost + 100000 * time >= 50 * RiskDen
                 THEN 50 * RiskDen
                 ELSE 365 * cost + 100000 * time

\* C10 witness: two procedures with fees 1000 and 500, an unofficial payment
\* of 200 and 14 and 7 days were saved: the row holds 1700 and 21.
C10_Witness ==
    /\ lastOp.op \in SaveOps
    /\ lastOp.ok
    /\ Len(SavedProcedures(lastOp.data)) = 2
    /\ responses[lastOp.ret].total_compliance_cost = 1700
    /\ responses[lastOp.ret].total_compliance_time = 21
    /\ responses[lastOp.ret].risk_score > 0
    /\ responses[lastOp.ret].risk_score < 10 * RiskDen

\* C11 (the claim as stated): in every state the stored total_compliance_cost,
\* total_compliance_time and risk_score of every row are the metrics of the
\* procedure list stored in the same row.
C11_DerivedFieldsCurrent ==
    \A i \in Ids :
        LET procs == StoredProcedures(responses[i])
        IN  /\ responses[i].total_compliance_cost = SumCost(procs)
            /\ responses[i].total_compliance_time = SumTime(procs)
            /\ responses[i].risk_score = RiskScore(SumCost(procs), SumTime(procs))

\* C12: a save_draft that follows a successful save_draft with the same form
\* data, user and active section, on the interview_id of the row the first
\* call wrote, returns that id again, leaves the row as it was in every column
\* but last_modified, and leaves the table with the same rows.
C12_UpsertIdempotent ==
    [][(/\ lastOp.op = "op_save_draft"
        /\ lastOp.ok
        /\ lastOp'.op = "op_save_draft"
        /\ lastOp'.data = lastOp.data
        /\ lastOp'.section = lastOp.section
        /\ lastOp'.id = lastOp.ret)
       => /\ lastOp'.ret = lastOp.ret
          /\ responses' = [responses EXCEPT ![lastOp.ret] =
                              [@ EXCEPT !.last_modified = now']]]_vars

\* C12 witness: the same save was made twice, the second time at a later
\* instant; there is one row, and it carries the later last_modified and the
\* earlier submission_date.
C12_Witness ==
    /\ lastOp.op = "op_save_draft"
    /\ lastOp.ok
    /\ lastOp.again
    /\ Cardinality(Ids) = 1
    /\ responses[lastOp.ret].last_modified = now
    /\ responses[lastOp.ret].submission_date < now
    /\ responses[lastOp.ret].procedure_data = json_dumps(PyList(<<P1, P2>>))

\* C13 (the claim as stated): a save_draft whose lookup or whose write fails
\* returns None and leaves the table as it was.
C13_FailedSaveChangesNothing ==
    [][(/\ lastOp'.op = "op_save_draft"
        /\ ~lastOp'.read_ok \/ ~lastOp'.write_ok)
       => (lastOp'.ret = NoId /\ responses' = responses)]_vars

\* C14: a "Save Section A" with an empty business name, or with a name the
\* duplicate check finds on another row, does not call save_draft and leaves
\* the table, the session's form data and its current_interview_id as they were.
C14_RefusedSectionAChangesNothing ==
    [][(/\ lastOp'.op = "save_section_a"
        /\ \/ lastOp'.name = ""
           \/ /\ lastOp'.check_ok
              /\ \E j \in DOMAIN responses :
                    j # lastOp'.id /\ responses[j].business_name = lastOp'.name)
       => /\ ~lastOp'.ok
          /\ lastOp'.data = EmptyDict
          /\ responses' = responses
          /\ lastOp'.after.form_data = lastOp'.s.form_data
          /\ lastOp'.after.current_interview_id = lastOp'.s.current_interview_id]_vars

\* C14 witness: a session that holds an interview tried to save Section A
\* under the name of another row; its own row still carries its own name.
C14_Witness ==
    /\ lastOp.op = "save_section_a"
    /\ ~lastOp.ok
    /\ lastOp.name # ""
    /\ lastOp.check_ok
    /\ lastOp.id \in Ids
    /\ responses[lastOp.id].business_name # lastOp.name
    /\ \E j \in Ids \ {lastOp.id} : responses[j].business_name = lastOp.name
    /\ lastOp.after = lastOp.s

\* the sections calculate_progress finds complete in a form-data dictionary
CompletedSections(form_data) ==
    {sec \in {"A", "B", "C", "D"} :
        \/ sec = "A" /\ SectionADone(form_data)
        \/ sec = "B" /\ SectionBDone(form_data)
        \/ sec = "C" /\ SectionCDone(form_data)
        \/ sec = "D" /\ SectionDDone(form_data)}

\* C15: calculate_progress returns 20 + 20 * k, k the number of completed
\* sections, a value between 20 and 100; a dictionary that holds only a
\* business name and a contact person gives 40.
C15_ProgressIsTwentyPerSection ==
    lastOp.op = "calculate_progress"
    => /\ lastOp.ret >= 20
       /\ lastOp.ret <= 100
       /\ lastOp.ret = 20 + 20 * Cardinality(CompletedSections(lastOp.data))
       /\ lastOp.data = [business_name |-> DataName, contact_person |-> Contact]
          => lastOp.ret = 40

\* C15 witness: the dictionary with only a business name and a contact person
\* was measured: one section, 40.
C15_Witness ==
    /\ lastOp.op = "calculate_progress"
    /\ lastOp.data = [business_name |-> DataName, contact_person |-> Contact]
    /\ Cardinality(CompletedSections(lastOp.data)) = 1
    /\ lastOp.ret = 40

\* C16: the risk score of non-negative totals lies between 0 and 10, is 0 for
\* an empty procedure list and is 10 whenever (cost/100000 + time/365) * 10 is
\* at least 10, that is whenever 365 * cost + 100000 * time >= 36500000.
C16_RiskScoreRange ==
    /\ lastOp.op \in {"risk_score", "metrics"}
       => /\ lastOp.ret >= 0
          /\ lastOp.ret <= 10 * RiskDen
          /\ 365 * lastOp.total_cost + 100000 * lastOp.total_time >= 50 * RiskDen
             => lastOp.ret = 10 * RiskDen
    /\ (lastOp.op = "metrics" /\ lastOp.procs = <<>>) => lastOp.ret = 0

\* C16 witness: totals above the cap were scored, and the score is 10.
C16_Witness ==
    /\ lastOp.op = "risk_score"
    /\ lastOp.total_cost = 250000
    /\ lastOp.total_time = 1000
    /\ lastOp.ret = 10 * RiskDen

\* C17 (the claim as stated): no step removes a row whose status is 'submitted'.
C17_SubmittedRowsStay ==
    [][\A i \in DOMAIN responses :
          responses[i].status = "submitted" => i \in DOMAIN responses']_vars

\* the number of sections complete by the four section predicates, read from
\* the dictionary handed to save_draft
SectionsOfSavedData(d) ==
    Bit(Get(d, "business_name", "") # "" /\ Get(d, "contact_person", "") # "")
    + Bit(Len(SavedProcedures(d)) > 0)
    + Bit("completion_time_local" \in DOMAIN d /\ "completion_time_national" \in DOMAIN d)
    + Bit("reform_priorities" \in DOMAIN d /\ Len(d.reform_priorities.v) > 0)

\* C18 (the claim as stated): the draft_progress a save_draft stores is
\* 20 + 20 * k, k the number of sections complete in the saved form data, a
\* non-empty saved procedure list counting Section B.
C18_StoredProgressCountsSections ==
    (lastOp.op \in SaveOps /\ lastOp.ok)
    => responses[lastOp.ret].draft_progress = 20 + 20 * SectionsOfSavedData(lastOp.data)

\* C19: submit_final changes nothing but status and submission_date of the row
\* it is called for: every other column of that row and every other row stay.
C19_SubmitFinalFrame ==
    [][lastOp'.op = "op_submit_final"
       => /\ DOMAIN responses' = DOMAIN responses
          /\ \A i \in DOMAIN responses :
                responses'[i] =
                    IF i = lastOp'.id
                    THEN [responses[i] EXCEPT
                             !.status = responses'[i].status,
                             !.submission_date = responses'[i].submission_date]
                    ELSE responses[i]]_vars

\* C19 witness: a draft saved at an earlier instant was submitted: the row is
\* submitted, stamped now, and its last_modified is still the earlier save's.
C19_Witness ==
    /\ lastOp.op = "op_submit_final"
    /\ lastOp.ok
    /\ lastOp.was = "draft"
    /\ responses[lastOp.id].status = "submitted"
    /\ responses[lastOp.id].submission_date = now
    /\ responses[lastOp.id].last_modified < now
    /\ responses[lastOp.id].total_compliance_cost = 1700

\* C20: revert_to_draft sets status to 'draft' and last_modified to the current
\* time on the row it is called for and changes nothing else: submission_date
\* stays.
C20_RevertFrame ==
    [][lastOp'.op = "op_revert_to_draft"
       => /\ DOMAIN responses' = DOMAIN responses
          /\ \A i \in DOMAIN responses :
                responses'[i] =
                    IF i = lastOp'.id
                    THEN [responses[i] EXCEPT !.status = "draft",
                                              !.last_modified = now']
                    ELSE responses[i]]_vars

\* C20 witness: a submitted row was reverted at a later instant: it is a draft
\* that carries the submission_date of its submission.
C20_Witness ==
    /\ lastOp.op = "op_revert_to_draft"
    /\ lastOp.was = "submitted"
    /\ responses[lastOp.id].status = "draft"
    /\ responses[lastOp.id].last_modified = now
    /\ responses[lastOp.id].submission_date < now
    /\ responses[lastOp.id].submission_date > 0

\* the editor operations that write the responses table
EditorOps == {"update_interview", "revert_to_draft", "delete_interview"}

\* C21: update_interview, revert_to_draft and delete_interview run only in a
\* session whose admin_logged_in is true, and a step that takes a row from
\* 'submitted' to 'draft' is a step of such a session: nothing an interviewer
\* session does moves a submitted row back to draft.
C21_EditorOnlyForAdmins ==
    [][ /\ lastOp'.op \in EditorOps => session.admin_logged_in
        /\ \A id \in Ids :
              (/\ responses[id].status = "submitted"
               /\ id \in DOMAIN responses'
               /\ responses'[id].status = "draft")
              => session.admin_logged_in /\ ~session.interviewer_logged_in ]_vars

C21_Witness ==
    /\ lastOp.op = "revert_to_draft"
    /\ lastOp.was = "submitted"
    /\ session.admin_logged_in
    /\ lastOp.id \in Ids
    /\ responses[lastOp.id].status = "draft"
    /\ responses[lastOp.id].created_by \in Interviewers

\* C29: interviewer_logged_in and admin_logged_in are never both true; each
\* implies logged_in and a current_user that is a user name of the matching
\* credential table; right after Logout the three flags are false,
\* current_user is None and current_interview_id, form_data and
\* procedures_list are back at their defaults.
C29_LoginInvariant ==
    /\ ~(session.interviewer_logged_in /\ session.admin_logged_in)
    /\ session.interviewer_logged_in =>
            /\ session.logged_in
            /\ session.current_user \in DOMAIN INTERVIEWER_CREDENTIALS
    /\ session.admin_logged_in =>
            /\ session.logged_in
            /\ session.current_user \in DOMAIN ADMIN_CREDENTIALS
    /\ lastOp.op = "logout" =>
            /\ ~session.logged_in
            /\ ~session.interviewer_logged_in
            /\ ~session.admin_logged_in
            /\ session.current_user = NoUser
            /\ session.current_interview_id = NoId
            /\ session.form_data = EmptyDict
            /\ session.procedures_list = <<>>

\* a session that held an interview has logged out
C29_Witness ==
    /\ lastOp.op = "logout"
    /\ lastOp.id # NoId
    /\ lastOp.name \in Interviewers
    /\ ~session.logged_in
    /\ session.current_interview_id = NoId
\* C22: risk_score is monotonically non-decreasing in both inputs: of two
\* computations, the one with no smaller total cost and no smaller total time
\* has no smaller score.
C22_RiskScoreMonotone ==
    [][ (/\ lastOp.op = "risk_score"
         /\ lastOp'.op = "risk_score"
         /\ lastOp.total_cost <= lastOp'.total_cost
         /\ lastOp.total_time <= lastOp'.total_time)
        => lastOp.ret <= lastOp'.ret ]_vars

\* a score below the cap computed from a positive cost and a positive time
C22_Witness ==
    /\ lastOp.op = "risk_score"
    /\ lastOp.total_cost > 0
    /\ lastOp.total_time > 0
    /\ lastOp.ret > RiskScore(0, lastOp.total_time)
    /\ lastOp.ret > RiskScore(lastOp.total_cost, 0)
    /\ lastOp.ret < 10 * RiskDen
ReadOps ==
    {"load_draft_into_session", "calculate_progress", "edit_compliance_procedures",
     "get_analytics_data", "display_interview_details"}

\* C23: on every read path a stored text that is not JSON is treated as the
\* empty list: the read neither raises nor shows an error, and decodes nothing
\* from that column.
C23_MalformedReadsAsEmpty ==
    lastOp.op \in ReadOps =>
        /\ ~lastOp.raised
        /\ ~lastOp.error
        /\ lastOp.procedure_data = MalformedText => lastOp.procedures = <<>>
        /\ (lastOp.reform_priorities = MalformedText \/ lastOp.isic_codes = MalformedText)
              => lastOp.strings = <<>>
\* C24: when two sessions call save_draft on the same existing interview_id
\* and their SELECTs and UPDATEs interleave, every call returns the id and
\* each UPDATE leaves the row holding that call's form columns and derived
\* metrics, all of them: the row is the last UPDATE's, never a mixture.
C24_LastWriteWins ==
    [][ (lastOp'.op = "save_draft" /\ lastOp'.found)
        => /\ lastOp'.ret = lastOp'.id
           /\ lastOp'.id \in DOMAIN responses'
           /\ \A k \in DOMAIN lastOp'.cols :
                 responses'[lastOp'.id][k] = lastOp'.cols[k] ]_vars

\* an UPDATE by a call that another tab's write on the same row overtook
C24_Witness ==
    /\ lastOp.op = "save_draft"
    /\ lastOp.found
    /\ lastOp.overtaken
    /\ lastOp.ret = lastOp.id
    /\ responses[lastOp.id].business_name = lastOp.cols.business_name
    /\ responses[lastOp.id].last_modified < now

\* the other rows that carry this business name
SameNameRows(id, name) ==
    {j \in Ids \ {id} : responses[j].business_name = name}

\* C25 as stated: two sessions submit different interviews whose rows carry
\* the same business name; a duplicate check that runs before the other
\* session's status write passes.
C25_ChecksPassBeforeStatusWrite ==
    [][ (/\ lastOp'.op = "submit_final_check"
         /\ lastOp'.racing # {}
         /\ \A j \in SameNameRows(lastOp'.id, lastOp'.name) :
                responses[j].status = "draft")
        => lastOp'.ret ]_vars

\* C25, amended: the duplicate check counts rows of every status, so a check
\* that runs while another row carries the business name refuses, writes
\* nothing and ends the call; two submit_final calls for different rows that
\* carry the same name are never both past their check.
C25_ChecksCountDrafts ==
    /\ [][ (/\ lastOp'.op = "submit_final_check"
             /\ SameNameRows(lastOp'.id, lastOp'.name) # {})
            => /\ ~lastOp'.ret
               /\ lastOp'.tab \notin DOMAIN inflight'
               /\ responses' = responses ]_vars
    /\ [](\A t1, t2 \in DOMAIN inflight :
            (/\ inflight[t1].op = "submit_final"
             /\ inflight[t2].op = "submit_final"
             /\ inflight[t1].stage = "write"
             /\ inflight[t2].stage = "write"
             /\ inflight[t1].interview_id # inflight[t2].interview_id
             /\ inflight[t1].interview_id \in Ids
             /\ inflight[t2].interview_id \in Ids)
            => responses[inflight[t1].interview_id].business_name
               # responses[inflight[t2].interview_id].business_name)

\* a check refused because of a draft row, the other session's submit_final
\* being under way
C25_Witness ==
    /\ lastOp.op = "submit_final_check"
    /\ ~lastOp.ret
    /\ lastOp.racing # {}
    /\ SameNameRows(lastOp.id, lastOp.name) # {}
    /\ \A j \in SameNameRows(lastOp.id, lastOp.name) : responses[j].status = "draft"
\* the followed session holds exactly what load_draft_into_session makes of
\* the stored draft: it was loaded and nothing has been edited since
LoadedUnedited ==
    /\ session.current_interview_id \in Ids
    /\ responses[session.current_interview_id].status = "draft"
    /\ LET loaded == load_draft_into_session(responses, session,
                                             session.current_interview_id)
       IN  /\ session.form_data = loaded.form_data
           /\ session.procedures_list = loaded.procedures_list
           /\ session.selected_isic_codes = loaded.selected_isic_codes

\* the columns a reload and save must give back as they were
RoundTripColumns ==
    {"business_name", "contact_person", "isic_codes", "year_established",
     "procedure_data", "completion_time_local", "completion_time_national",
     "reform_priorities", "total_compliance_cost", "total_compliance_time",
     "risk_score", "created_by", "draft_progress", "status", "submission_date"}

\* C26: a draft loaded with load_draft_into_session and saved again with
\* nothing edited ("Save Procedures") keeps every column but last_modified
\* (and the current_section the save was made from): procedure_data,
\* isic_codes, reform_priorities, the derived metrics and draft_progress
\* are as they were.
C26_ReloadRoundTrip ==
    [][ (/\ LoadedUnedited
         /\ lastOp'.op = "save_procedures"
         /\ lastOp'.ok)
        => \A k \in RoundTripColumns :
              responses'[session.current_interview_id][k]
              = responses[session.current_interview_id][k] ]_vars
\* C27: once submit_final has succeeded for a row, a section save from the
\* interviewer's session, which still holds that current_interview_id,
\* changes nothing of the submitted row's content.
C27_SubmittedRowFinal ==
    [][ (/\ lastOp'.op \in SaveOps
         /\ session.interviewer_logged_in
         /\ session.current_interview_id \in Ids
         /\ responses[session.current_interview_id].status = "submitted")
        => \A k \in RoundTripColumns :
              responses'[session.current_interview_id][k]
              = responses[session.current_interview_id][k] ]_vars
\* C28: submit_final marks a row submitted (and returns True) only when its
\* duplicate lookup completed and found no other row with the business name;
\* when the lookup fails the submission is refused.
C28_SubmitNeedsCompletedLookup ==
    [][ (lastOp'.op = "op_submit_final" /\ lastOp'.ok)
        => lastOp'.check_ok /\ lastOp'.others = {} ]_vars
====
